---- MODULE Spec2Model ----
(***************************************************************************)
(* Weekly fundraising signup calendar: CalendarGrid and the dialogs it     *)
(* mounts (EventDetailModal, AddEventModal, ConfirmationDialog), together  *)
(* with the pure helpers of utils-calendar.                                *)
(*                                                                         *)
(* Strings are sequences of one-character strings, so that trim,           *)
(* toLowerCase, replace(/\D/g,'') and slice are computed, not assumed.     *)
(* One action is one user event: the handler, the React state updaters it  *)
(* queues, and the effects that run after the resulting render.            *)
(***************************************************************************)
EXTENDS Integers, Sequences, FiniteSets, TLC

\* ------------------------------------------------------------------ bounds
\* generateId() is called at most MaxIds times over a run, for events and
\* volunteer entries together.
MaxIds == 3

\* ----------------------------------------------------------------- strings
Digits == {"0", "1", "2", "3", "4", "5", "6", "7", "8", "9"}

IsDigit(c) == c \in Digits

\* phone.replace(/\D/g, '')
StripNonDigits(s) == SelectSeq(s, IsDigit)

Min(a, b) == IF a < b THEN a ELSE b

\* String.prototype.slice(from, to) for 0 <= from <= to
slice(s, from, to) == SubSeq(s, from + 1, Min(to, Len(s)))

IsSpace(c) == c = " "

RECURSIVE TrimStart(_)
TrimStart(s) ==
    IF s = <<>> THEN s
    ELSE IF IsSpace(Head(s)) THEN TrimStart(Tail(s)) ELSE s

RECURSIVE TrimEnd(_)
TrimEnd(s) ==
    IF s = <<>> THEN s
    ELSE IF IsSpace(s[Len(s)]) THEN TrimEnd(SubSeq(s, 1, Len(s) - 1)) ELSE s

\* String.prototype.trim()
trim(s) == TrimEnd(TrimStart(s))

LowerChar(c) ==
    CASE c = "A" -> "a"
      [] c = "B" -> "b"
      [] c = "D" -> "d"
      [] c = "J" -> "j"
      [] OTHER -> c

\* String.prototype.toLowerCase()
toLowerCase(s) == [i \in 1..Len(s) |-> LowerChar(s[i])]

\* -------------------------------------------------------------- phone utils
PhoneDigits == 10

cleanPhoneRaw(phone) == phone

cleanPhone(phone) ==
    LET digits == StripNonDigits(phone)
    IN  IF Len(digits) = PhoneDigits THEN digits ELSE <<>>

isValidPhoneLoose(phone) == Len(StripNonDigits(phone)) > 0

isValidPhone(phone) == Len(StripNonDigits(phone)) = PhoneDigits

maskPhoneInputAll(value) ==
    LET digits == StripNonDigits(value)
        f1 == IF Len(digits) > 0 THEN <<"(">> \o slice(digits, 0, 3) ELSE <<>>
        f2 == IF Len(digits) >= 3
              THEN f1 \o <<")", " ">> \o slice(digits, 3, 6) ELSE f1
        f3 == IF Len(digits) >= 6
              THEN f2 \o <<"-">> \o slice(digits, 6, Len(digits)) ELSE f2
    IN  f3

maskPhoneInputShort(value) ==
    LET digits == StripNonDigits(value)
        f1 == IF Len(digits) > 0 THEN <<"(">> \o slice(digits, 0, 3) ELSE <<>>
        f2 == IF Len(digits) >= 3
              THEN f1 \o <<")", " ">> \o slice(digits, 3, 6) ELSE f1
        f3 == IF Len(digits) >= 6
              THEN f2 \o <<"-">> \o slice(digits, 6, 9) ELSE f2
    IN  f3

maskPhoneInput(value) ==
    LET digits == StripNonDigits(value)
        f1 == IF Len(digits) > 0 THEN <<"(">> \o slice(digits, 0, 3) ELSE <<>>
        f2 == IF Len(digits) >= 3
              THEN f1 \o <<")", " ">> \o slice(digits, 3, 6) ELSE f1
        f3 == IF Len(digits) >= 6
              THEN f2 \o <<"-">> \o slice(digits, 6, 10) ELSE f2
    IN  f3

formatPhoneLoose(phone) ==
    LET digits == StripNonDigits(phone)
    IN  IF Len(digits) >= PhoneDigits
        THEN <<"(">> \o slice(digits, 0, 3) \o <<")", " ">>
             \o slice(digits, 3, 6) \o <<"-">>
             \o slice(digits, 6, Len(digits))
        ELSE phone

formatPhone(phone) ==
    LET digits == StripNonDigits(phone)
    IN  IF Len(digits) = PhoneDigits
        THEN <<"(">> \o slice(digits, 0, 3) \o <<")", " ">>
             \o slice(digits, 3, 6) \o <<"-">>
             \o slice(digits, 6, Len(digits))
        ELSE phone

\* ------------------------------------------------------------------ dates
\* A Date is the number of its day, day 0 being a Monday. weekStart and
\* bounds.minDate are midnights; bounds.maxDate keeps the time of day of the
\* mount, which never decides a comparison with a midnight.
DaysPerWeek == 7

WeeksBack == 2

WeeksAhead == 12

\* startOfWeek(date, { weekStartsOn: 1 })
getWeekStart(date) == date - (date % DaysPerWeek)

subWeeks(date, amount) == date - amount * DaysPerWeek

addWeeks(date, amount) == date + amount * DaysPerWeek

isBefore(date, dateToCompare) == date < dateToCompare

isAfter(date, dateToCompare) == date > dateToCompare

\* getNavigationBounds() when new Date() is today
getNavigationBounds(today) ==
    [minDate |-> getWeekStart(subWeeks(today, WeeksBack)),
     maxDate |-> addWeeks(today, WeeksAhead)]

canNavigateToWeekStrict(week, b) ==
    isAfter(week, b.minDate) /\ ~isAfter(week, b.maxDate)

canNavigateToWeek(week, b) ==
    ~isBefore(week, b.minDate) /\ ~isAfter(week, b.maxDate)

\* addDays(date, amount)
addDays(date, amount) == date + amount

getWeekDays(start) == [i \in 1..DaysPerWeek |-> addDays(start, i - 1)]

\* The calendar: day 0 is Monday 2026-10-19.
isLeapYear(y) == (y % 4 = 0 /\ y % 100 # 0) \/ y % 400 = 0

getDaysInMonth(y, m) ==
    IF m = 2 THEN (IF isLeapYear(y) THEN 29 ELSE 28)
    ELSE IF m \in {4, 6, 9, 11} THEN 30 ELSE 31

Pad2(k) == IF k < 10 THEN "0" \o ToString(k) ELSE ToString(k)

\* 'yyyy-MM-dd' of day d of month m of year y, d running over or under the
\* month's days.
RECURSIVE formatYMD(_, _, _)
formatYMD(y, m, d) ==
    IF d < 1
    THEN (IF m = 1 THEN formatYMD(y - 1, 12, d + 31)
          ELSE formatYMD(y, m - 1, d + getDaysInMonth(y, m - 1)))
    ELSE IF d > getDaysInMonth(y, m)
    THEN (IF m = 12 THEN formatYMD(y + 1, 1, d - 31)
          ELSE formatYMD(y, m + 1, d - getDaysInMonth(y, m)))
    ELSE ToString(y) \o "-" \o Pad2(m) \o "-" \o Pad2(d)

\* format(date, 'yyyy-MM-dd'): the calendar day of the local date.
toISODate(date) == formatYMD(2026, 10, 19 + date)

\* The days on which the page may be mounted: one of each day of the week.
MountDays ==
    (WeeksBack * DaysPerWeek)..(WeeksBack * DaysPerWeek + DaysPerWeek - 1)

\* ---------------------------------------------------------- volunteer rules
isDuplicateVolunteerLoose(volunteers, name, phone) ==
    LET cleanedPhone == cleanPhone(phone)
    IN  \E i \in 1..Len(volunteers) :
            /\ trim(volunteers[i].name) = trim(name)
            /\ volunteers[i].phone = cleanedPhone

isDuplicateVolunteerRawPhone(volunteers, name, phone) ==
    \E i \in 1..Len(volunteers) :
        /\ toLowerCase(trim(volunteers[i].name)) = toLowerCase(trim(name))
        /\ volunteers[i].phone = phone

isDuplicateVolunteer(volunteers, name, phone) ==
    LET cleanedPhone == cleanPhone(phone)
    IN  \E i \in 1..Len(volunteers) :
            /\ toLowerCase(trim(volunteers[i].name)) = toLowerCase(trim(name))
            /\ volunteers[i].phone = cleanedPhone

\* ------------------------------------------------------------------- roles
getDefaultRoles ==
    << [id |-> "role-1", label |-> "Fundraising appeal coordinator",
        isDefault |-> TRUE, minVolunteers |-> 1],
       [id |-> "role-2", label |-> "Men's volunteer lead",
        isDefault |-> TRUE, minVolunteers |-> 1],
       [id |-> "role-3", label |-> "Sisters' volunteer lead",
        isDefault |-> TRUE, minVolunteers |-> 1],
       [id |-> "role-4", label |-> "Volunteers list",
        isDefault |-> TRUE, minVolunteers |-> 8] >>

RoleIds == {getDefaultRoles[i].id : i \in 1..Len(getDefaultRoles)}

\* ------------------------------------------------------------- user inputs
\* Day keys of the displayed week on which the user works.
DateInputs == {"2026-11-02"}

\* Roles whose "Add" form the user opens.
RoleInputs == {"role-4"}

\* Text typed into the Add Event modal's textarea.
NewDetailsInputs == { <<" ">>, <<" ", "x">> }

\* Text typed into the Event Detail modal's textarea.
EditDetailsInputs == { <<" ">>, <<" ", "y", " ">> }

\* Text typed into a volunteer-name input.
NameInputs == { <<" ">>, <<"a">>, <<" ", "A">> }

\* Raw values of the phone input before masking.
PhoneInputs ==
    { <<"5","5","5","1","2","3","4","5","6">>,
      <<"5","5","5","1","2","3","4","5","6","7">>,
      <<"(","5","5","5",")"," ","1","2","3","-","4","5","6","8","9">> }

\* --------------------------------------------------------------- the state
VARIABLES
    daysData,           \* CalendarGrid: Record<date, DayState>
    selectedEvent,      \* CalendarGrid: <<>> (null) or <<event>>
    selectedEventDate,  \* CalendarGrid
    addEventDate,       \* CalendarGrid: '' closes the AddEventModal
    showUnlockConfirm,  \* CalendarGrid
    showDeleteConfirm,  \* CalendarGrid
    newDetails,         \* AddEventModal.details
    newError,           \* AddEventModal.error
    editedDetails,      \* EventDetailModal.editedDetails
    addForms,           \* EventDetailModal.addForms: Record<roleId, form>
    nextId,             \* number of ids generateId() has handed out
    cards,              \* InlineEventCard state of each mounted card, by event id
    weekStart,          \* CalendarGrid: the Monday displayed, as a day number
    bounds,             \* CalendarGrid: getNavigationBounds() memoized at mount
    now,                \* the day new Date() falls on
    tz,                 \* the browser's time zone: local time is UTC + tz hours
    arg,                \* argument handed to a helper of lib/types
    ret,                \* what the helper returned
    showAddRoleDialog,  \* CalendarGrid
    roleName,           \* AddRoleDialog.roleName
    roleError,          \* AddRoleDialog.error
    addedRoles          \* CalendarGrid: the roles appended to the default ones

vars == << daysData, selectedEvent, selectedEventDate, addEventDate,
           showUnlockConfirm, showDeleteConfirm, newDetails, newError,
           editedDetails, addForms, nextId, cards, weekStart, bounds, now,
           tz,
           arg, ret, showAddRoleDialog, roleName, roleError, addedRoles >>

navVars == << weekStart, bounds, now, tz >>

callVars == << arg, ret >>

roleVars == << showAddRoleDialog, roleName, roleError, addedRoles >>

\* The roles state of CalendarGrid: the default roles, then the roles added
\* through handleAddRole.
roles == getDefaultRoles \o addedRoles

\* The empty object {} / an absent key.
EmptyMap == << >>

Has(map, key) == key \in DOMAIN map

\* { ...map, [key]: value }
Put(map, key, value) ==
    [k \in (DOMAIN map) \cup {key} |-> IF k = key THEN value ELSE map[k]]

\* delete copy[key]
Drop(map, key) == [k \in (DOMAIN map) \ {key} |-> map[k]]

\* map[key] || dflt
GetOr(map, key, dflt) == IF Has(map, key) THEN map[key] ELSE dflt

createEmptyDayState == [events |-> <<>>]

createEmptyEvent(id) ==
    [id |-> id, details |-> <<>>, locked |-> FALSE, roles |-> EmptyMap]

\* array.map(f) for f given as a one-argument operator
MapSeq(s, F(_)) == [i \in 1..Len(s) |-> F(s[i])]

\* array.find(e => e.id === id), as <<>> or <<e>>
FindById(s, id) ==
    LET hits == SelectSeq(s, LAMBDA e : e.id = id)
    IN  IF hits = <<>> THEN <<>> ELSE <<hits[1]>>

\* generateId(): a value no earlier call returned
generateId == nextId + 1

\* The state after CalendarGrid is mounted on day today.
InitIn(today, zone) ==
    /\ daysData = EmptyMap
    /\ selectedEvent = <<>>
    /\ selectedEventDate = ""
    /\ addEventDate = ""
    /\ showUnlockConfirm = FALSE
    /\ showDeleteConfirm = FALSE
    /\ newDetails = <<>>
    /\ newError = ""
    /\ editedDetails = <<>>
    /\ addForms = EmptyMap
    /\ nextId = 0
    /\ cards = EmptyMap
    /\ now = today
    /\ tz = zone
    /\ weekStart = getWeekStart(today)
    /\ bounds = getNavigationBounds(today)
    /\ showAddRoleDialog = FALSE
    /\ roleName = <<>>
    /\ roleError = ""
    /\ addedRoles = <<>>

\* Mounted in a browser whose clock runs on UTC.
InitApp(today) == InitIn(today, 0)

InitAt(today) ==
    /\ InitApp(today)
    /\ arg = <<>>
    /\ ret = <<>>

Init == InitAt(WeeksBack * DaysPerWeek)

\* ---------------------------------------------------------------- coverage
getCoverageStatusStrict(ev, role) ==
    LET volunteers == GetOr(ev.roles, role.id, <<>>)
        current == Len(volunteers)
        minimum == role.minVolunteers
        isMet == current > minimum
    IN  [current |-> current, minimum |-> minimum, isMet |-> isMet]

getCoverageStatus(ev, role) ==
    LET volunteers == GetOr(ev.roles, role.id, <<>>)
        current == Len(volunteers)
        minimum == role.minVolunteers
        isMet == current >= minimum
    IN  [current |-> current, minimum |-> minimum, isMet |-> isMet]

\* ------------------------------------------- CalendarGrid state updaters
\* Each operator is the function handed to setDaysData, applied to prev with
\* the handler's selectedEventDate.

SaveNewEventData(prev, date, newEvent) ==
    LET dayState == GetOr(prev, date, createEmptyDayState)
    IN  Put(prev, date, [dayState EXCEPT !.events = Append(@, newEvent)])

UpdateEveryEventData(prev, date, eventId, details) ==
    IF ~Has(prev, date) THEN prev
    ELSE Put(prev, date,
             [prev[date] EXCEPT !.events =
                 MapSeq(@, LAMBDA e : [e EXCEPT !.details = details])])

UpdateEventData(prev, date, eventId, details) ==
    IF ~Has(prev, date) THEN prev
    ELSE Put(prev, date,
             [prev[date] EXCEPT !.events =
                 MapSeq(@, LAMBDA e : IF e.id = eventId
                                      THEN [e EXCEPT !.details = details]
                                      ELSE e)])

UnlockEventData(prev, date, eventId) ==
    IF ~Has(prev, date) THEN prev
    ELSE Put(prev, date,
             [prev[date] EXCEPT !.events =
                 MapSeq(@, LAMBDA e : IF e.id = eventId
                                      THEN [e EXCEPT !.locked = FALSE]
                                      ELSE e)])

ToggleLockData(prev, date, eventId) ==
    IF ~Has(prev, date) THEN prev
    ELSE Put(prev, date,
             [prev[date] EXCEPT !.events =
                 MapSeq(@, LAMBDA e : IF e.id = eventId
                                      THEN [e EXCEPT !.locked = ~e.locked]
                                      ELSE e)])

KeepEventData(prev, date, eventId) ==
    IF ~Has(prev, date) THEN prev
    ELSE Put(prev, date,
             [prev[date] EXCEPT !.events =
                 SelectSeq(@, LAMBDA e : e.id = eventId)])

DeleteEventData(prev, date, eventId) ==
    IF ~Has(prev, date) THEN prev
    ELSE Put(prev, date,
             [prev[date] EXCEPT !.events =
                 SelectSeq(@, LAMBDA e : e.id # eventId)])

AddVolunteerFreshData(prev, date, eventId, roleId, volunteer) ==
    IF ~Has(prev, date) THEN prev
    ELSE Put(prev, date,
             [prev[date] EXCEPT !.events =
                 MapSeq(@, LAMBDA e :
                     IF e.id = eventId
                     THEN [createEmptyEvent(e.id) EXCEPT !.roles =
                              Put(e.roles, roleId,
                                  Append(GetOr(e.roles, roleId, <<>>),
                                         volunteer))]
                     ELSE e)])

AddVolunteerEveryEventData(prev, date, eventId, roleId, volunteer) ==
    IF ~Has(prev, date) THEN prev
    ELSE Put(prev, date,
             [prev[date] EXCEPT !.events =
                 MapSeq(@, LAMBDA e :
                     [e EXCEPT !.roles =
                         Put(@, roleId,
                             Append(GetOr(e.roles, roleId, <<>>),
                                    volunteer))])])

AddVolunteerData(prev, date, eventId, roleId, volunteer) ==
    IF ~Has(prev, date) THEN prev
    ELSE Put(prev, date,
             [prev[date] EXCEPT !.events =
                 MapSeq(@, LAMBDA e :
                     IF e.id = eventId
                     THEN [e EXCEPT !.roles =
                              Put(@, roleId,
                                  Append(GetOr(e.roles, roleId, <<>>),
                                         volunteer))]
                     ELSE e)])

RemoveOtherVolunteersData(prev, date, eventId, roleId, volunteerId) ==
    IF ~Has(prev, date) THEN prev
    ELSE Put(prev, date,
             [prev[date] EXCEPT !.events =
                 MapSeq(@, LAMBDA e :
                     IF e.id = eventId
                     THEN [e EXCEPT !.roles =
                              Put(@, roleId,
                                  SelectSeq(GetOr(e.roles, roleId, <<>>),
                                            LAMBDA v : v.id = volunteerId))]
                     ELSE e)])

RemoveFirstVolunteerData(prev, date, eventId, roleId, volunteerId) ==
    IF ~Has(prev, date) THEN prev
    ELSE Put(prev, date,
             [prev[date] EXCEPT !.events =
                 MapSeq(@, LAMBDA e :
                     IF e.id = eventId
                     THEN [e EXCEPT !.roles =
                              Put(@, roleId,
                                  LET vs == GetOr(e.roles, roleId, <<>>)
                                  IN  IF vs = <<>> THEN vs ELSE Tail(vs))]
                     ELSE e)])

RemoveVolunteerData(prev, date, eventId, roleId, volunteerId) ==
    IF ~Has(prev, date) THEN prev
    ELSE Put(prev, date,
             [prev[date] EXCEPT !.events =
                 MapSeq(@, LAMBDA e :
                     IF e.id = eventId
                     THEN [e EXCEPT !.roles =
                              Put(@, roleId,
                                  SelectSeq(GetOr(e.roles, roleId, <<>>),
                                            LAMBDA v : v.id # volunteerId))]
                     ELSE e)])

\* A selection that is never refreshed from the updated events.
SelectedKept(prev, next, date, eventId, selected) == selected

\* "const updatedEvent = updatedEvents.find(...); if (updatedEvent)
\*  setSelectedEvent(updatedEvent)" inside an updater: the selection after it.
SelectedAfter(prev, next, date, eventId, selected) ==
    IF ~Has(prev, date) THEN selected
    ELSE LET found == FindById(next[date].events, eventId)
         IN  IF found = <<>> THEN selected ELSE found

\* EventDetailModal's effect on [event, open], run when the event object was
\* replaced: editedDetails follows event.details.
EditedAfter(selected, edited) ==
    IF selected # <<>> THEN selected[1].details ELSE edited

\* ------------------------------------------------------------ what is open
DetailOpen == selectedEvent # <<>>

AddEventOpen == addEventDate # ""

ConfirmOpen == showUnlockConfirm \/ showDeleteConfirm

\* The grid itself takes clicks: no backdrop or modal dialog covers it.
GridFree ==
    ~DetailOpen /\ ~AddEventOpen /\ ~ConfirmOpen /\ ~showAddRoleDialog

\* The Event Detail modal takes input: it is open and no dialog is above it.
DetailFree == DetailOpen /\ ~AddEventOpen /\ ~ConfirmOpen

event == selectedEvent[1]

\* ------------------------------------------------------------ CalendarGrid
handleEventClick(date, i) ==
    /\ GridFree
    /\ Has(daysData, date)
    /\ i \in 1..Len(daysData[date].events)
    /\ selectedEvent' = <<daysData[date].events[i]>>
    /\ selectedEventDate' = date
    /\ editedDetails' = EditedAfter(selectedEvent', editedDetails)
    /\ UNCHANGED << daysData, addEventDate, showUnlockConfirm,
                    showDeleteConfirm, newDetails, newError, addForms, nextId >>
    /\ UNCHANGED << cards, navVars, callVars, roleVars >>

\* The Export PDF button of WeekHeader: CalendarGrid takes no props and hands
\* WeekHeader no onExportPDF, so the button's onClick is undefined.
ExportPDFClick ==
    /\ GridFree
    /\ UNCHANGED vars

handleAddEventClick(date) ==
    /\ GridFree
    /\ addEventDate' = date
    /\ UNCHANGED << daysData, selectedEvent, selectedEventDate,
                    showUnlockConfirm, showDeleteConfirm, newDetails, newError,
                    editedDetails, addForms, nextId >>
    /\ UNCHANGED << cards, navVars, callVars, roleVars >>

\* ----------------------------------------------------------- AddEventModal
AddEventDetailsChange(text) ==
    /\ AddEventOpen
    /\ newDetails' = text
    /\ newError' = ""
    /\ UNCHANGED << daysData, selectedEvent, selectedEventDate, addEventDate,
                    showUnlockConfirm, showDeleteConfirm, editedDetails,
                    addForms, nextId >>
    /\ UNCHANGED << cards, navVars, callVars, roleVars >>

handleSaveNewEventUnlocked(details) ==
    LET newEvent == [createEmptyEvent(generateId) EXCEPT !.details = details]
    IN  /\ daysData' = SaveNewEventData(daysData, addEventDate, newEvent)
        /\ nextId' = nextId + 1

\* handleSaveNewEvent as AddEventModal.handleSave calls it
handleSaveNewEvent(details) ==
    LET newEvent == [createEmptyEvent(generateId) EXCEPT
                        !.details = details, !.locked = TRUE]
    IN  /\ daysData' = SaveNewEventData(daysData, addEventDate, newEvent)
        /\ nextId' = nextId + 1

\* AddEventModal.handleSave in a run where generateId() is called at most
\* limit times
AddEventSaveWithin(limit) ==
    /\ AddEventOpen
    /\ LET trimmedDetails == trim(newDetails)
       IN  IF trimmedDetails = <<>>
           THEN /\ newError' = "Event details are required"
                /\ UNCHANGED << daysData, nextId, addEventDate, newDetails >>
           ELSE /\ nextId < limit
                /\ handleSaveNewEvent(trimmedDetails)
                /\ addEventDate' = ""
                /\ newDetails' = <<>>
                /\ newError' = ""
    /\ UNCHANGED << selectedEvent, selectedEventDate, showUnlockConfirm,
                    showDeleteConfirm, editedDetails, addForms >>
    /\ UNCHANGED << cards, navVars, callVars, roleVars >>

AddEventSave == AddEventSaveWithin(MaxIds)

AddEventCancel ==
    /\ AddEventOpen
    /\ addEventDate' = ""
    /\ newDetails' = <<>>
    /\ newError' = ""
    /\ UNCHANGED << daysData, selectedEvent, selectedEventDate,
                    showUnlockConfirm, showDeleteConfirm, editedDetails,
                    addForms, nextId >>
    /\ UNCHANGED << cards, navVars, callVars, roleVars >>

\* -------------------------------------------------------- EventDetailModal
DetailsChange(text) ==
    /\ DetailFree
    /\ ~event.locked
    /\ editedDetails' = text
    /\ UNCHANGED << daysData, selectedEvent, selectedEventDate, addEventDate,
                    showUnlockConfirm, showDeleteConfirm, newDetails, newError,
                    addForms, nextId >>
    /\ UNCHANGED << cards, navVars, callVars, roleVars >>

\* handleUpdateEvent's "setSelectedEvent({ ...selectedEvent, details })"
UpdateEventSelected(selected, eventId, details) ==
    IF selected # <<>> /\ selected[1].id = eventId
    THEN <<[selected[1] EXCEPT !.details = details]>>
    ELSE selected

\* CalendarGrid.handleToggleLock(eventId), run from a state whose daysData
\* and selection are (data, selected)
handleToggleLock(data, selected, eventId) ==
    LET next == ToggleLockData(data, selectedEventDate, eventId)
    IN  /\ daysData' = next
        /\ selectedEvent' =
               SelectedAfter(data, next, selectedEventDate, eventId, selected)

\* Lock & Save without the test of the trimmed draft.
LockAndSaveAlways ==
    LET trimmedDetails == trim(editedDetails)
        updated == UpdateEventData(daysData, selectedEventDate, event.id,
                                   trimmedDetails)
    IN  /\ handleToggleLock(updated,
                            UpdateEventSelected(selectedEvent, event.id,
                                                trimmedDetails),
                            event.id)
        /\ editedDetails' = EditedAfter(selectedEvent', editedDetails)
        /\ UNCHANGED showUnlockConfirm

\* The unlocked branch of handleToggleLockClick: "Lock & Save"
LockAndSave ==
    LET trimmedDetails == trim(editedDetails)
        updated == UpdateEventData(daysData, selectedEventDate, event.id,
                                   trimmedDetails)
    IN  IF trimmedDetails # <<>>
        THEN /\ handleToggleLock(updated,
                                 UpdateEventSelected(selectedEvent, event.id,
                                                     trimmedDetails),
                                 event.id)
             /\ editedDetails' = EditedAfter(selectedEvent', editedDetails)
             /\ UNCHANGED showUnlockConfirm
        ELSE UNCHANGED << daysData, selectedEvent, editedDetails,
                          showUnlockConfirm >>

handleToggleLockClick ==
    /\ DetailFree
    /\ IF event.locked
       THEN /\ showUnlockConfirm' = TRUE
            /\ UNCHANGED << daysData, selectedEvent, editedDetails >>
       ELSE LockAndSave
    /\ UNCHANGED << selectedEventDate, addEventDate, showDeleteConfirm,
                    newDetails, newError, addForms, nextId >>
    /\ UNCHANGED << cards, navVars, callVars, roleVars >>

\* "Yes, Unlock": ConfirmationDialog.handleConfirm with handleConfirmUnlock
ConfirmUnlock ==
    /\ showUnlockConfirm
    /\ IF selectedEvent # <<>>
       THEN /\ handleToggleLock(daysData, selectedEvent, event.id)
            /\ editedDetails' = EditedAfter(selectedEvent', editedDetails)
       ELSE UNCHANGED << daysData, selectedEvent, editedDetails >>
    /\ showUnlockConfirm' = FALSE
    /\ UNCHANGED << selectedEventDate, addEventDate, showDeleteConfirm,
                    newDetails, newError, addForms, nextId >>
    /\ UNCHANGED << cards, navVars, callVars, roleVars >>

CancelUnlock ==
    /\ showUnlockConfirm
    /\ showUnlockConfirm' = FALSE
    /\ UNCHANGED << daysData, selectedEvent, selectedEventDate, addEventDate,
                    showDeleteConfirm, newDetails, newError, editedDetails,
                    addForms, nextId >>
    /\ UNCHANGED << cards, navVars, callVars, roleVars >>

RequestDelete ==
    /\ DetailFree
    /\ showDeleteConfirm' = TRUE
    /\ UNCHANGED << daysData, selectedEvent, selectedEventDate, addEventDate,
                    showUnlockConfirm, newDetails, newError, editedDetails,
                    addForms, nextId >>
    /\ UNCHANGED << cards, navVars, callVars, roleVars >>

\* "Yes, Delete": ConfirmationDialog.handleConfirm with handleDeleteEvent;
\* the modal's effect clears addForms once open is false.
ConfirmDelete ==
    /\ showDeleteConfirm
    /\ IF selectedEvent # <<>>
       THEN /\ daysData' = DeleteEventData(daysData, selectedEventDate, event.id)
            /\ selectedEvent' = <<>>
            /\ addForms' = EmptyMap
       ELSE UNCHANGED << daysData, selectedEvent, addForms >>
    /\ showDeleteConfirm' = FALSE
    /\ UNCHANGED << selectedEventDate, addEventDate, showUnlockConfirm,
                    newDetails, newError, editedDetails, nextId >>
    /\ UNCHANGED << cards, navVars, callVars, roleVars >>

CancelDelete ==
    /\ showDeleteConfirm
    /\ showDeleteConfirm' = FALSE
    /\ UNCHANGED << daysData, selectedEvent, selectedEventDate, addEventDate,
                    showUnlockConfirm, newDetails, newError, editedDetails,
                    addForms, nextId >>
    /\ UNCHANGED << cards, navVars, callVars, roleVars >>

\* onClose: backdrop or X button; the effect clears addForms
CloseDetail ==
    /\ DetailFree
    /\ selectedEvent' = <<>>
    /\ addForms' = EmptyMap
    /\ UNCHANGED << daysData, selectedEventDate, addEventDate,
                    showUnlockConfirm, showDeleteConfirm, newDetails, newError,
                    editedDetails, nextId >>
    /\ UNCHANGED << cards, navVars, callVars, roleVars >>

openAddForm(roleId) ==
    /\ DetailFree
    /\ ~Has(addForms, roleId)
    /\ addForms' = Put(addForms, roleId,
                       [roleId |-> roleId, name |-> <<>>, phone |-> <<>>,
                        error |-> ""])
    /\ UNCHANGED << daysData, selectedEvent, selectedEventDate, addEventDate,
                    showUnlockConfirm, showDeleteConfirm, newDetails, newError,
                    editedDetails, nextId >>
    /\ UNCHANGED << cards, navVars, callVars, roleVars >>

closeAddForm(roleId) ==
    /\ DetailFree
    /\ Has(addForms, roleId)
    /\ addForms' = Drop(addForms, roleId)
    /\ UNCHANGED << daysData, selectedEvent, selectedEventDate, addEventDate,
                    showUnlockConfirm, showDeleteConfirm, newDetails, newError,
                    editedDetails, nextId >>
    /\ UNCHANGED << cards, navVars, callVars, roleVars >>

NameChange(roleId, text) ==
    /\ DetailFree
    /\ Has(addForms, roleId)
    /\ addForms' = Put(addForms, roleId,
                       [addForms[roleId] EXCEPT !.name = text, !.error = ""])
    /\ UNCHANGED << daysData, selectedEvent, selectedEventDate, addEventDate,
                    showUnlockConfirm, showDeleteConfirm, newDetails, newError,
                    editedDetails, nextId >>
    /\ UNCHANGED << cards, navVars, callVars, roleVars >>

handlePhoneChange(roleId, value) ==
    /\ DetailFree
    /\ Has(addForms, roleId)
    /\ LET masked == maskPhoneInput(value)
       IN  addForms' = Put(addForms, roleId,
                           [addForms[roleId] EXCEPT !.phone = masked,
                                                    !.error = ""])
    /\ UNCHANGED << daysData, selectedEvent, selectedEventDate, addEventDate,
                    showUnlockConfirm, showDeleteConfirm, newDetails, newError,
                    editedDetails, nextId >>
    /\ UNCHANGED << cards, navVars, callVars, roleVars >>

\* CalendarGrid.handleAddVolunteer(eventId, roleId, volunteer)
handleAddVolunteer(eventId, roleId, volunteer) ==
    LET next == AddVolunteerData(daysData, selectedEventDate, eventId, roleId,
                                 volunteer)
    IN  /\ daysData' = next
        /\ selectedEvent' = SelectedAfter(daysData, next, selectedEventDate,
                                          eventId, selectedEvent)

\* CalendarGrid.handleRemoveVolunteer(eventId, roleId, volunteerId)
handleRemoveVolunteer(eventId, roleId, volunteerId) ==
    LET next == RemoveVolunteerData(daysData, selectedEventDate, eventId,
                                    roleId, volunteerId)
    IN  /\ daysData' = next
        /\ selectedEvent' = SelectedAfter(daysData, next, selectedEventDate,
                                          eventId, selectedEvent)

SetFormError(roleId, message) ==
    addForms' = Put(addForms, roleId,
                    [addForms[roleId] EXCEPT !.error = message])

\* EventDetailModal.handleAddVolunteer(roleId): "Add Volunteer" or Enter, in
\* a run where generateId() is called at most limit times
SubmitVolunteerWithin(roleId, limit) ==
    /\ DetailFree
    /\ Has(addForms, roleId)
    /\ LET form == addForms[roleId]
           name == trim(form.name)
           phone == form.phone
           existingVolunteers == GetOr(event.roles, roleId, <<>>)
           volunteer == [id |-> generateId, name |-> name,
                         phone |-> cleanPhone(phone)]
       IN  IF name = <<>>
           THEN /\ SetFormError(roleId, "Name is required")
                /\ UNCHANGED << daysData, selectedEvent, editedDetails, nextId >>
           ELSE IF ~isValidPhone(phone)
           THEN /\ SetFormError(roleId, "Valid 10-digit phone required")
                /\ UNCHANGED << daysData, selectedEvent, editedDetails, nextId >>
           ELSE IF isDuplicateVolunteer(existingVolunteers, name, phone)
           THEN /\ SetFormError(roleId, "Already signed up for this role")
                /\ UNCHANGED << daysData, selectedEvent, editedDetails, nextId >>
           ELSE /\ nextId < limit
                /\ handleAddVolunteer(event.id, roleId, volunteer)
                /\ nextId' = nextId + 1
                /\ addForms' = Drop(addForms, roleId)
                /\ editedDetails' = EditedAfter(selectedEvent', editedDetails)
    /\ UNCHANGED << selectedEventDate, addEventDate, showUnlockConfirm,
                    showDeleteConfirm, newDetails, newError >>
    /\ UNCHANGED << cards, navVars, callVars, roleVars >>

SubmitVolunteer(roleId) == SubmitVolunteerWithin(roleId, MaxIds)

\* The X of a volunteer chip
RemoveVolunteerClick(roleId, volunteerId) ==
    /\ DetailFree
    /\ \E i \in 1..Len(GetOr(event.roles, roleId, <<>>)) :
           event.roles[roleId][i].id = volunteerId
    /\ handleRemoveVolunteer(event.id, roleId, volunteerId)
    /\ editedDetails' = EditedAfter(selectedEvent', editedDetails)
    /\ UNCHANGED << selectedEventDate, addEventDate, showUnlockConfirm,
                    showDeleteConfirm, newDetails, newError, addForms, nextId >>
    /\ UNCHANGED << cards, navVars, callVars, roleVars >>

\* ------------------------------------------------------- the specification
Ids == 1..MaxIds

Next ==
    \/ \E date \in DateInputs, i \in Ids : handleEventClick(date, i)
    \/ \E date \in DateInputs : handleAddEventClick(date)
    \/ \E text \in NewDetailsInputs : AddEventDetailsChange(text)
    \/ AddEventSave
    \/ AddEventCancel
    \/ \E text \in EditDetailsInputs : DetailsChange(text)
    \/ handleToggleLockClick
    \/ ConfirmUnlock
    \/ CancelUnlock
    \/ RequestDelete
    \/ ConfirmDelete
    \/ CancelDelete
    \/ CloseDetail
    \/ \E roleId \in RoleInputs : openAddForm(roleId)
    \/ \E roleId \in RoleInputs : closeAddForm(roleId)
    \/ \E roleId \in RoleInputs, text \in NameInputs : NameChange(roleId, text)
    \/ \E roleId \in RoleInputs, value \in PhoneInputs :
           handlePhoneChange(roleId, value)
    \/ \E roleId \in RoleInputs : SubmitVolunteer(roleId)
    \/ \E roleId \in RoleIds, volunteerId \in Ids :
           RemoveVolunteerClick(roleId, volunteerId)
    \/ ExportPDFClick

Spec == Init /\ [][Next]_vars

\* ---------------------------------------------------------- InlineEventCard
\* A day list that mounts one InlineEventCard per stored event, with
\* onToggleLock and onUpdateEvent bound to CalendarGrid's updaters for the
\* card's day. Events are created through the Add Event modal. The card's
\* signup form follows the same protocol as EventDetailModal's and is not
\* part of this specification.

\* useState(false), useState(false), useState(event.details): the state of a
\* card no handler has touched since it was mounted.
CardOf(e) ==
    GetOr(cards, e.id, [isExpanded |-> FALSE, isEditingDetails |-> FALSE,
                        editedDetails |-> e.details])

CardEvent(date, i) == daysData[date].events[i]

CardMounted(date, i) ==
    /\ ~AddEventOpen
    /\ Has(daysData, date)
    /\ i \in 1..Len(daysData[date].events)

\* The textarea with Save and Cancel is rendered.
CardEditorShown(date, i) ==
    /\ CardMounted(date, i)
    /\ CardOf(CardEvent(date, i)).isExpanded
    /\ CardEvent(date, i).details # <<>>
    /\ ~CardEvent(date, i).locked
    /\ CardOf(CardEvent(date, i)).isEditingDetails

modalVars == << selectedEvent, selectedEventDate, showUnlockConfirm,
                showDeleteConfirm, editedDetails, addForms >>

CardToggleExpanded(date, i) ==
    /\ CardMounted(date, i)
    /\ LET e == CardEvent(date, i)
       IN  cards' = Put(cards, e.id,
                        [CardOf(e) EXCEPT !.isExpanded = ~@])
    /\ UNCHANGED << daysData, addEventDate, newDetails, newError, nextId >>
    /\ UNCHANGED << modalVars, navVars, callVars, roleVars >>

\* InlineEventCard.handleToggleLock
CardToggleLock(date, i) ==
    /\ CardMounted(date, i)
    /\ LET e == CardEvent(date, i)
       IN  /\ cards' = IF e.locked
                       THEN Put(cards, e.id,
                                [CardOf(e) EXCEPT !.editedDetails = e.details,
                                                  !.isEditingDetails = TRUE])
                       ELSE cards
           /\ daysData' = ToggleLockData(daysData, date, e.id)
    /\ UNCHANGED << addEventDate, newDetails, newError, nextId >>
    /\ UNCHANGED << modalVars, navVars, callVars, roleVars >>

CardDetailsChange(date, i, text) ==
    /\ CardEditorShown(date, i)
    /\ LET e == CardEvent(date, i)
       IN  cards' = Put(cards, e.id, [CardOf(e) EXCEPT !.editedDetails = text])
    /\ UNCHANGED << daysData, addEventDate, newDetails, newError, nextId >>
    /\ UNCHANGED << modalVars, navVars, callVars, roleVars >>

\* InlineEventCard.handleSaveDetails
CardSaveDetails(date, i) ==
    /\ CardEditorShown(date, i)
    /\ LET e == CardEvent(date, i)
           trimmed == trim(CardOf(e).editedDetails)
       IN  /\ daysData' = IF trimmed # <<>> /\ trimmed # e.details
                          THEN UpdateEventData(daysData, date, e.id, trimmed)
                          ELSE daysData
           /\ cards' = Put(cards, e.id,
                           [CardOf(e) EXCEPT !.isEditingDetails = FALSE])
    /\ UNCHANGED << addEventDate, newDetails, newError, nextId >>
    /\ UNCHANGED << modalVars, navVars, callVars, roleVars >>

\* InlineEventCard.handleCancelEdit
CardCancelEdit(date, i) ==
    /\ CardEditorShown(date, i)
    /\ LET e == CardEvent(date, i)
       IN  cards' = Put(cards, e.id,
                        [CardOf(e) EXCEPT !.editedDetails = e.details,
                                          !.isEditingDetails = FALSE])
    /\ UNCHANGED << daysData, addEventDate, newDetails, newError, nextId >>
    /\ UNCHANGED << modalVars, navVars, callVars, roleVars >>

NextCards ==
    \/ \E date \in DateInputs : handleAddEventClick(date)
    \/ \E text \in NewDetailsInputs : AddEventDetailsChange(text)
    \/ AddEventSave
    \/ AddEventCancel
    \/ \E date \in DateInputs, i \in Ids : CardToggleExpanded(date, i)
    \/ \E date \in DateInputs, i \in Ids : CardToggleLock(date, i)
    \/ \E date \in DateInputs, i \in Ids, text \in EditDetailsInputs :
           CardDetailsChange(date, i, text)
    \/ \E date \in DateInputs, i \in Ids : CardSaveDetails(date, i)
    \/ \E date \in DateInputs, i \in Ids : CardCancelEdit(date, i)

SpecCards == Init /\ [][NextCards]_vars

\* ------------------------------------------------- two days and two roles
\* The same handlers with signups for two roles on two days: the user adds
\* events, opens them, and adds and removes volunteers, typing one name and
\* one phone; events are neither edited, unlocked nor deleted.
MaxRosterIds == 4

TwoDates == {"2026-11-02", "2026-11-03"}

TwoRoles == {"role-1", "role-4"}

OneDetails == <<"x">>

OneName == <<"a">>

OnePhone == <<"5","5","5","1","2","3","4","5","6","7">>

RosterIds == 1..MaxRosterIds

NextRosters ==
    \/ \E date \in TwoDates, i \in RosterIds : handleEventClick(date, i)
    \/ \E date \in TwoDates : handleAddEventClick(date)
    \/ AddEventDetailsChange(OneDetails)
    \/ AddEventSaveWithin(MaxRosterIds)
    \/ CloseDetail
    \/ \E roleId \in TwoRoles : openAddForm(roleId)
    \/ \E roleId \in TwoRoles : NameChange(roleId, OneName)
    \/ \E roleId \in TwoRoles : handlePhoneChange(roleId, OnePhone)
    \/ \E roleId \in TwoRoles : SubmitVolunteerWithin(roleId, MaxRosterIds)
    \/ \E roleId \in TwoRoles, volunteerId \in RosterIds :
           RemoveVolunteerClick(roleId, volunteerId)

SpecRosters == Init /\ [][NextRosters]_vars

\* ------------------------------------------------------- week navigation
\* Dates are days counted from a Monday. The bounds are computed at mount;
\* new Date() in handleToday reads the clock at the time of the click.
MaxDaysPast == 7

canGoPrev == canNavigateToWeek(subWeeks(weekStart, 1), bounds)

canGoNext == canNavigateToWeek(addWeeks(weekStart, 1), bounds)

navFrame == UNCHANGED << daysData, addEventDate, newDetails, newError, nextId,
                         cards, modalVars, callVars, roleVars >>

handlePrevWeek ==
    /\ GridFree
    /\ IF canGoPrev
       THEN weekStart' = subWeeks(weekStart, 1)
       ELSE weekStart' = weekStart
    /\ UNCHANGED << bounds, now, tz >>
    /\ navFrame

handleNextWeek ==
    /\ GridFree
    /\ IF canGoNext
       THEN weekStart' = addWeeks(weekStart, 1)
       ELSE weekStart' = weekStart
    /\ UNCHANGED << bounds, now, tz >>
    /\ navFrame

handleToday ==
    /\ GridFree
    /\ LET today == now
           todayWeekStart == getWeekStart(today)
       IN  IF todayWeekStart # weekStart
           THEN weekStart' = todayWeekStart
           ELSE weekStart' = weekStart
    /\ UNCHANGED << bounds, now, tz >>
    /\ navFrame

\* A day passes while the page stays open.
DayPasses ==
    /\ now < bounds.maxDate + MaxDaysPast
    /\ now' = now + 1
    /\ UNCHANGED << weekStart, bounds, tz >>
    /\ navFrame

InitNav == \E today \in MountDays : InitAt(today)

NextNav ==
    \/ handlePrevWeek
    \/ handleNextWeek
    \/ handleToday
    \/ DayPasses

SpecNav == InitNav /\ [][NextNav]_vars

\* -------------------------------------------------- calls of the phone utils
\* arg is the string handed to the helpers, ret maps the name of each helper
\* called so far to what it returned. The strings are all patterns of digits
\* and other characters up to MaxLen characters; the character at a position
\* is fixed by the position, so that order and truncation show.
MaxLen == 12

DigitAt(i) ==
    <<"0", "1", "2", "3", "4", "5", "6", "7", "8", "9">>[(i % 10) + 1]

OtherAt(i) == <<"(", ")", " ", "-", "x">>[(i % 5) + 1]

PhoneStrings ==
    {[i \in 1..n |-> IF pattern[i] THEN DigitAt(i) ELSE OtherAt(i)] :
        <<n, pattern>> \in
            UNION {{<<n, pattern>> : pattern \in [1..n -> BOOLEAN]} :
                      n \in 0..MaxLen}}

appFrame == UNCHANGED << daysData, addEventDate, newDetails, newError, nextId,
                         cards, modalVars, navVars, roleVars >>

CallMaskPhoneInput ==
    /\ ~Has(ret, "maskPhoneInput")
    /\ ret' = Put(ret, "maskPhoneInput", maskPhoneInput(arg))
    /\ UNCHANGED arg
    /\ appFrame

\* cleanPhone applied to the masked value, as handleAddVolunteer does.
CallCleanPhone ==
    /\ Has(ret, "maskPhoneInput")
    /\ ~Has(ret, "cleanPhone")
    /\ ret' = Put(ret, "cleanPhone", cleanPhone(ret["maskPhoneInput"]))
    /\ UNCHANGED arg
    /\ appFrame

CallFormatPhone ==
    /\ ~Has(ret, "formatPhone")
    /\ ret' = Put(ret, "formatPhone", formatPhone(arg))
    /\ UNCHANGED arg
    /\ appFrame

InitPhone ==
    /\ InitApp(WeeksBack * DaysPerWeek)
    /\ arg \in PhoneStrings
    /\ ret = EmptyMap

NextPhone ==
    \/ CallMaskPhoneInput
    \/ CallCleanPhone
    \/ CallFormatPhone

SpecPhone == InitPhone /\ [][NextPhone]_vars

\* ------------------------------------------- calls of isDuplicateVolunteer
\* arg holds the three arguments. The entries of volunteers are as the
\* components store them: a trimmed name and a phone of 10 digits.
MaxExisting == 2

JaneDoe == <<"J", "a", "n", "e", " ", "D", "o", "e">>

StoredNames == {JaneDoe, <<"A", "b">>, <<"a", "b">>}

StoredPhones ==
    {<<"5", "5", "5", "1", "2", "3", "4", "5", "6", "7">>,
     <<"5", "5", "5", "1", "2", "3", "4", "5", "6", "8">>}

StoredEntries == [id : {1}, name : StoredNames, phone : StoredPhones]

CandidateNames ==
    {<<"j", "a", "n", "e", " ", "d", "o", "e">>,
     <<" ", "J", "a", "n", "e", " ", "D", "o", "e", " ">>,
     <<"a", "B", " ">>,
     <<"b">>}

CandidatePhones ==
    {<<"(", "5", "5", "5", ")", " ", "1", "2", "3", "-", "4", "5", "6", "7">>,
     <<"5", "5", "5", "1", "2", "3", "4", "5", "6", "7">>,
     <<"5", "5", "5", "-", "1", "2", "3", "-", "4", "5", "6", "8">>,
     <<"(", "5", "5", "5", ")", " ", "1", "2", "3", "-", "4", "5", "6">>,
     <<>>}

DuplicateArgs ==
    [volunteers : UNION {[1..n -> StoredEntries] : n \in 0..MaxExisting},
     name : CandidateNames,
     phone : CandidatePhones]

CallIsDuplicateVolunteer ==
    /\ ~Has(ret, "isDuplicateVolunteer")
    /\ ret' = Put(ret, "isDuplicateVolunteer",
                  isDuplicateVolunteer(arg.volunteers, arg.name, arg.phone))
    /\ UNCHANGED arg
    /\ appFrame

InitDup ==
    /\ InitApp(WeeksBack * DaysPerWeek)
    /\ arg \in DuplicateArgs
    /\ ret = EmptyMap

NextDup == CallIsDuplicateVolunteer

SpecDup == InitDup /\ [][NextDup]_vars

\* ---------------------------------------------------------- AddRoleDialog
\* CalendarGrid mounts the dialog with open = showAddRoleDialog and never
\* calls setShowAddRoleDialog(true) itself; OpenAddRoleDialog is that call,
\* made by whatever control is given the setter.
RoleNameInputs == { <<" ">>, <<"x">> }

roleFrame == UNCHANGED << daysData, addEventDate, newDetails, newError,
                          cards, modalVars, navVars, callVars >>

OpenAddRoleDialog ==
    /\ GridFree
    /\ showAddRoleDialog' = TRUE
    /\ UNCHANGED << roleName, roleError, addedRoles, nextId >>
    /\ roleFrame

RoleNameChange(text) ==
    /\ showAddRoleDialog
    /\ roleName' = text
    /\ roleError' = ""
    /\ UNCHANGED << showAddRoleDialog, addedRoles, nextId >>
    /\ roleFrame

handleAddRoleReplacing(name) ==
    LET newRole == [id |-> ToString(generateId), label |-> name,
                    isDefault |-> FALSE, minVolunteers |-> 1]
    IN  addedRoles' = <<newRole>>

handleAddRole(name) ==
    LET newRole == [id |-> ToString(generateId), label |-> name,
                    isDefault |-> FALSE, minVolunteers |-> 1]
    IN  addedRoles' = Append(addedRoles, newRole)

\* Closing submits the typed name.
CloseAddRoleDialogSaving ==
    /\ showAddRoleDialog
    /\ showAddRoleDialog' = FALSE
    /\ addedRoles' = Append(addedRoles,
                            [id |-> ToString(generateId), label |-> roleName,
                             isDefault |-> FALSE, minVolunteers |-> 1])
    /\ roleName' = <<>>
    /\ roleError' = ""
    /\ UNCHANGED nextId
    /\ roleFrame

\* Cancel, Escape or a click outside: onOpenChange(false), then the effect.
CloseAddRoleDialog ==
    /\ showAddRoleDialog
    /\ showAddRoleDialog' = FALSE
    /\ roleName' = <<>>
    /\ roleError' = ""
    /\ UNCHANGED << addedRoles, nextId >>
    /\ roleFrame

\* AddRoleDialog.handleAdd
AddRoleSave ==
    /\ showAddRoleDialog
    /\ LET trimmedName == trim(roleName)
       IN  IF trimmedName = <<>>
           THEN /\ roleError' = "Role name is required"
                /\ UNCHANGED << showAddRoleDialog, roleName, addedRoles,
                                nextId >>
           ELSE /\ nextId < MaxIds
                /\ handleAddRole(trimmedName)
                /\ nextId' = nextId + 1
                /\ showAddRoleDialog' = FALSE
                /\ roleName' = <<>>
                /\ roleError' = ""
    /\ roleFrame

\* Every dialog of the page, with one text for each input.
NextDialogs ==
    \/ \E date \in DateInputs, i \in Ids : handleEventClick(date, i)
    \/ \E date \in DateInputs : handleAddEventClick(date)
    \/ \E text \in NewDetailsInputs : AddEventDetailsChange(text)
    \/ AddEventSave
    \/ AddEventCancel
    \/ handleToggleLockClick
    \/ ConfirmUnlock
    \/ CancelUnlock
    \/ RequestDelete
    \/ ConfirmDelete
    \/ CancelDelete
    \/ CloseDetail
    \/ \E roleId \in RoleInputs : openAddForm(roleId)
    \/ \E roleId \in RoleInputs : NameChange(roleId, OneName)
    \/ \E roleId \in RoleInputs : handlePhoneChange(roleId, OnePhone)
    \/ \E roleId \in RoleInputs : SubmitVolunteer(roleId)
    \/ OpenAddRoleDialog
    \/ \E text \in RoleNameInputs : RoleNameChange(text)
    \/ AddRoleSave
    \/ CloseAddRoleDialog
    \/ handlePrevWeek
    \/ handleNextWeek

SpecDialogs == Init /\ [][NextDialogs]_vars

\* -------------------------------------------------------------- PDF export
\* The page with the Export PDF button handed Home.handleExportPDF and the
\* snapshot of the grid, as page.tsx passes it to CalendarGrid. arg is the
\* snapshot handed to exportCalendarToPDF; ret is what the user gets, the
\* saved document or the alert, until the download or the alert is done.
MaxExportIds == 2

TimeZones == {-5, 0, 2}

\* Monday and Sunday of the displayed week.
ExportDayInputs == {weekStart, addDays(weekStart, DaysPerWeek - 1)}

\* day.toISOString().split('T')[0]: the calendar day, on the UTC clock, of the
\* local midnight that starts the day.
toISOStringDate(day) == formatYMD(2026, 10, 19 + ((day * 24 - tz) \div 24))

Snapshot ==
    [weekStart |-> weekStart, weekDays |-> getWeekDays(weekStart),
     daysData |-> daysData, roles |-> roles]

\* The part of the document written for one event.
eventHTML(e, roleList) ==
    LET filled == SelectSeq(roleList,
                            LAMBDA r : Len(GetOr(e.roles, r.id, <<>>)) > 0)
    IN  [locked |-> e.locked,
         details |-> IF trim(e.details) # <<>> THEN e.details ELSE <<>>,
         roles |-> [k \in 1..Len(filled) |->
                      [label |-> filled[k].label,
                       volunteers |->
                           [j \in 1..Len(e.roles[filled[k].id]) |->
                               [name |-> e.roles[filled[k].id][j].name,
                                phone |-> formatPhone(
                                    e.roles[filled[k].id][j].phone)]]]]]

\* One section per day of data.weekDays, with the events found for the day.
generatePDFHTML(data) ==
    [i \in 1..Len(data.weekDays) |->
        LET day == data.weekDays[i]
            date == toISOStringDate(day)
            events == IF Has(data.daysData, date)
                      THEN data.daysData[date].events ELSE <<>>
        IN  [day |-> day,
             events |-> [k \in 1..Len(events) |->
                            eventHTML(events[k], data.roles)]]]

\* fails: the import of html2pdf.js or the save throws. The result is the
\* saved document, or the error thrown from the catch block.
exportCalendarToPDF(data, fails) ==
    IF fails
    THEN [threw |-> TRUE, document |-> <<>>]
    ELSE [threw |-> FALSE, document |-> generatePDFHTML(data)]

\* The error is let through without a notice.
handleExportPDFSilent(data, fails) ==
    LET done == exportCalendarToPDF(data, fails)
    IN  [document |-> done.document, alert |-> ""]

\* Home.handleExportPDF
handleExportPDF(data, fails) ==
    LET done == exportCalendarToPDF(data, fails)
    IN  [document |-> done.document,
         alert |-> IF done.threw
                   THEN "Failed to export PDF. Please try again." ELSE ""]

ExportPDF(fails) ==
    /\ GridFree
    /\ ret = <<>>
    /\ arg' = Snapshot
    /\ ret' = handleExportPDF(Snapshot, fails)
    /\ appFrame

\* The download is done or the alert is dismissed.
ExportDone ==
    /\ ret # <<>>
    /\ arg' = <<>>
    /\ ret' = <<>>
    /\ appFrame

InitExport ==
    \E zone \in TimeZones :
        /\ InitIn(WeeksBack * DaysPerWeek, zone)
        /\ arg = <<>>
        /\ ret = <<>>

\* The page is left alone while an export runs or its alert shows.
NextExport ==
    \/ \E day \in ExportDayInputs :
           ret = <<>> /\ handleAddEventClick(toISODate(day))
    \/ ret = <<>> /\ AddEventDetailsChange(OneDetails)
    \/ ret = <<>> /\ AddEventSaveWithin(MaxExportIds)
    \/ ret = <<>> /\ AddEventCancel
    \/ ret = <<>> /\ handlePrevWeek
    \/ ret = <<>> /\ handleNextWeek
    \/ \E fails \in BOOLEAN : ExportPDF(fails)
    \/ ExportDone

SpecExport == InitExport /\ [][NextExport]_vars

\* ------------------------------------------- deleting in the phone field
\* The phone input is controlled: its value is the masked text, and every
\* edit hands the edited text to handlePhoneChange, which stores its mask.
\* arg is the text handed over, ret holds the value of the field.
DeleteLast(value) == SubSeq(value, 1, Len(value) - 1)

FieldValue == ret[1]

\* The field receives its first text (typed or pasted).
PhoneFieldInput ==
    /\ ret = <<>>
    /\ ret' = <<maskPhoneInput(arg)>>
    /\ UNCHANGED arg
    /\ appFrame

\* Backspace at the end of the field.
PhoneFieldBackspace ==
    /\ ret # <<>>
    /\ FieldValue # <<>>
    /\ arg' = DeleteLast(FieldValue)
    /\ ret' = <<maskPhoneInput(arg')>>
    /\ appFrame

InitField ==
    /\ InitApp(WeeksBack * DaysPerWeek)
    /\ arg \in PhoneStrings
    /\ ret = <<>>

NextField ==
    \/ PhoneFieldInput
    \/ PhoneFieldBackspace

SpecField == InitField /\ [][NextField]_vars

\* ============================================================ properties
\* The events stored in a daysData value, and one of them by id.
EventsOf(data) ==
    UNION {{data[d].events[i] : i \in 1..Len(data[d].events)} : d \in DOMAIN data}

EventIdsOf(data) == {e.id : e \in EventsOf(data)}

EventById(data, id) == CHOOSE e \in EventsOf(data) : e.id = id

\* The roster of the open event as daysData stores it.
StoredRoster(roleId) ==
    LET day == daysData[selectedEventDate].events
        hit == FindById(day, event.id)
    IN  IF hit = <<>> THEN <<>> ELSE GetOr(hit[1].roles, roleId, <<>>)

SameVolunteer(v, w) ==
    /\ toLowerCase(trim(v.name)) = toLowerCase(trim(w.name))
    /\ v.phone = w.phone

FormRole == "role-4"

\* C1: no roster of any stored event holds two entries whose trimmed,
\* lower-cased names are equal and whose stored phones are equal.
C1_NoDuplicateInRoster ==
    \A e \in EventsOf(daysData) : \A r \in DOMAIN e.roles :
        \A i, j \in 1..Len(e.roles[r]) :
            i # j => ~SameVolunteer(e.roles[r][i], e.roles[r][j])

\* A roster of two entries, and a further submission turned down as a
\* duplicate of one of them.
C1_Witness ==
    /\ DetailOpen
    /\ Has(addForms, FormRole)
    /\ addForms[FormRole].error = "Already signed up for this role"
    /\ Len(StoredRoster(FormRole)) = 2

\* The three cases in which a submission is to be rejected, read off
\* the form and the roster daysData stores.
RejectCase(roleId) ==
    LET form == addForms[roleId]
    IN  \/ trim(form.name) = <<>>
        \/ Len(StripNonDigits(form.phone)) # 10
        \/ \E i \in 1..Len(StoredRoster(roleId)) :
               SameVolunteer(StoredRoster(roleId)[i],
                             [name |-> form.name,
                              phone |-> StripNonDigits(form.phone)])

\* C2: a submission with an empty trimmed name, a phone that is not 10 digits
\* or a duplicate of a roster entry adds nothing (no id is generated, daysData
\* and the selection stay) and sets an error message on the form.
C2_RejectedSubmission ==
    [][\A r \in RoleInputs :
          (DetailFree /\ Has(addForms, r) /\ RejectCase(r) /\ SubmitVolunteer(r))
          => /\ daysData' = daysData
             /\ selectedEvent' = selectedEvent
             /\ nextId' = nextId
             /\ Has(addForms', r)
             /\ addForms'[r].error # ""]_vars

\* A phone of nine digits was submitted and refused.
C2_Witness ==
    /\ DetailOpen
    /\ Has(addForms, FormRole)
    /\ addForms[FormRole].error = "Valid 10-digit phone required"
    /\ Len(StripNonDigits(addForms[FormRole].phone)) = 9
    /\ trim(addForms[FormRole].name) # <<>>

\* C3: every stored entry has a non-empty name equal to its own trim and a
\* phone of exactly 10 digit characters.
C3_StoredEntryShape ==
    \A e \in EventsOf(daysData) : \A r \in DOMAIN e.roles :
        \A i \in 1..Len(e.roles[r]) :
            LET v == e.roles[r][i]
            IN  /\ v.name # <<>>
                /\ trim(v.name) = v.name
                /\ Len(v.phone) = 10
                /\ \A k \in 1..Len(v.phone) : v.phone[k] \in Digits

\* An entry typed as " A" with the masked eleven-digit phone is stored as
\* "A" with the first ten digits.
C3_Witness ==
    \E e \in EventsOf(daysData) : \E r \in DOMAIN e.roles :
        \E i \in 1..Len(e.roles[r]) :
            /\ e.roles[r][i].name = <<"A">>
            /\ e.roles[r][i].phone =
                   <<"5","5","5","1","2","3","4","5","6","8">>

\* C4: a step that changes the details of a stored event starts in a state
\* where that event is unlocked.
C4_DetailsChangeOnlyUnlocked ==
    [][\A e \in EventsOf(daysData) :
          (/\ e.id \in EventIdsOf(daysData')
           /\ EventById(daysData', e.id).details # e.details)
          => ~e.locked]_vars

\* An event whose details were rewritten by Lock & Save ("y" is typed only
\* into the Event Detail modal).
C4_Witness ==
    \E e \in EventsOf(daysData) : e.details = <<"y">> /\ e.locked

\* C5 as stated: a step that takes a stored event from locked to unlocked
\* starts with the Unlock confirmation dialog open on that event and is the
\* dialog's confirmation; cancelling the dialog leaves daysData as it was.
C5_UnlockOnlyWhenConfirmed ==
    [][/\ \A e \in EventsOf(daysData) :
              (/\ e.locked
               /\ e.id \in EventIdsOf(daysData')
               /\ ~EventById(daysData', e.id).locked)
              => /\ showUnlockConfirm /\ ~showUnlockConfirm'
                 /\ selectedEvent # <<>> /\ event.id = e.id
       /\ CancelUnlock => daysData' = daysData]_vars

LockedIn(data, id) == id \in EventIdsOf(data) /\ EventById(data, id).locked

\* C6 as stated: whenever the Event Detail modal shows an unlocked event, its
\* Lock & Save button leads to a state where the event is locked and no
\* confirmation dialog is open.
C6_LockAndSaveAlwaysLocks ==
    (DetailFree /\ ~event.locked)
    => ENABLED (/\ handleToggleLockClick
                /\ LockedIn(daysData', event.id)
                /\ ~showUnlockConfirm'
                /\ ~showDeleteConfirm')

\* C6, amended: whenever the Event Detail modal shows an unlocked event and
\* the edited details are non-empty after trimming, its Lock & Save button
\* leads in one step to a state where the event is locked and no confirmation
\* dialog is open.
C6_LockAndSaveLocks ==
    (DetailFree /\ ~event.locked /\ trim(editedDetails) # <<>>)
    => ENABLED (/\ handleToggleLockClick
                /\ LockedIn(daysData', event.id)
                /\ ~showUnlockConfirm'
                /\ ~showDeleteConfirm')

\* The modal still shows the event that Lock & Save has just locked with the
\* text typed into it.
C6_Witness ==
    /\ DetailFree
    /\ event.locked
    /\ event.details = <<"y">>
    /\ LockedIn(daysData, event.id)

\* C7: a step in which an event leaves daysData starts with the Delete
\* dialog open on that event, closes the dialog and removes exactly that
\* event; confirming removes the selected event whether or not it is locked;
\* cancelling leaves daysData as it was.
C7_DeleteOnlyWhenConfirmed ==
    [][/\ \A e \in EventsOf(daysData) :
              e.id \notin EventIdsOf(daysData')
              => /\ showDeleteConfirm /\ ~showDeleteConfirm'
                 /\ selectedEvent # <<>> /\ event.id = e.id
                 /\ selectedEvent' = <<>>
                 /\ EventsOf(daysData') = EventsOf(daysData) \ {e}
       /\ (ConfirmDelete /\ selectedEvent # <<>>)
              => event.id \notin EventIdsOf(daysData')
       /\ CancelDelete => daysData' = daysData]_vars

\* Every id was handed out, and the day is empty again after a deletion.
C7_Witness ==
    /\ nextId = MaxIds
    /\ selectedEvent = <<>>
    /\ ~showDeleteConfirm
    /\ \E d \in DOMAIN daysData : daysData[d].events = <<>>

\* C8: an event appended to a day is locked, carries the details handed to
\* handleSaveNewEvent (the trimmed text of the Add Event modal), has no
\* rosters and a fresh id.
C8_NewEventLocked ==
    [][\A d \in DateInputs :
          LET old == GetOr(daysData, d, createEmptyDayState).events
              new == GetOr(daysData', d, createEmptyDayState).events
          IN  Len(new) > Len(old)
              => /\ new[Len(new)].locked
                 /\ new[Len(new)].details = trim(newDetails)
                 /\ new[Len(new)].roles = EmptyMap
                 /\ new[Len(new)].id \notin EventIdsOf(daysData)
                 /\ SubSeq(new, 1, Len(old)) = old]_vars

\* The Add Event modal has closed on a stored, locked event without rosters.
C8_Witness ==
    /\ addEventDate = ""
    /\ \E e \in EventsOf(daysData) :
           e.locked /\ e.details = <<"x">> /\ e.roles = EmptyMap

\* C9: submitting the add form and clicking a volunteer's X are enabled for
\* a locked and for an unlocked event alike, and neither changes the set of
\* events, their locked flags or their details.
C9_RosterEditsIgnoreLock ==
    /\ [](\A r \in RoleInputs :
            /\ (DetailFree /\ Has(addForms, r) /\ nextId < MaxIds)
                   => ENABLED SubmitVolunteer(r)
            /\ DetailFree
                   => \A i \in 1..Len(GetOr(event.roles, r, <<>>)) :
                        ENABLED RemoveVolunteerClick(r, event.roles[r][i].id))
    /\ [][\A r \in RoleIds :
            (SubmitVolunteer(r) \/ \E v \in Ids : RemoveVolunteerClick(r, v))
            => /\ EventIdsOf(daysData') = EventIdsOf(daysData)
               /\ \A e \in EventsOf(daysData) :
                      /\ EventById(daysData', e.id).locked = e.locked
                      /\ EventById(daysData', e.id).details = e.details]_vars

\* A locked event whose roster holds the third id only: the entry with the
\* second id was added and removed again.
C9_Witness ==
    /\ DetailOpen
    /\ event.locked
    /\ event.id = 1
    /\ Has(event.roles, FormRole)
    /\ Len(event.roles[FormRole]) = 1
    /\ event.roles[FormRole][1].id = 3

\* C10: in every state and for every (eventId, roleId, volunteerId), running
\* handleRemoveVolunteer a second time with the same arguments leaves daysData
\* and the selection as the first run left them.
C10_RemoveIdempotent ==
    \A eventId \in 0..MaxIds, roleId \in RoleIds, volunteerId \in 0..MaxIds :
        LET once == RemoveVolunteerData(daysData, selectedEventDate, eventId,
                                        roleId, volunteerId)
            sel1 == SelectedAfter(daysData, once, selectedEventDate, eventId,
                                  selectedEvent)
            twice == RemoveVolunteerData(once, selectedEventDate, eventId,
                                         roleId, volunteerId)
            sel2 == SelectedAfter(once, twice, selectedEventDate, eventId, sel1)
        IN  twice = once /\ sel2 = sel1

\* A roster emptied by a removal stays in the event as an empty list.
C10_Witness ==
    \E e \in EventsOf(daysData) :
        Has(e.roles, FormRole) /\ e.roles[FormRole] = <<>>

\* The roster (eventId, roleId) of the day selectedEventDate, read as
\* "event.roles[roleId] || []"; empty when there is no such event.
TargetRoster(eventId, roleId) ==
    IF ~Has(daysData, selectedEventDate) THEN <<>>
    ELSE LET hit == FindById(daysData[selectedEventDate].events, eventId)
         IN  IF hit = <<>> THEN <<>> ELSE GetOr(hit[1].roles, roleId, <<>>)

HasTargetRoster(eventId, roleId) ==
    /\ Has(daysData, selectedEventDate)
    /\ \E e \in EventsOf(daysData) : e.id = eventId /\ Has(e.roles, roleId)

AbsentFrom(roster, volunteerId) ==
    \A i \in 1..Len(roster) : roster[i].id # volunteerId

\* daysData with every roster read as "event.roles[roleId] || []".
RostersRead(data) ==
    [d \in DOMAIN data |->
        [i \in 1..Len(data[d].events) |->
            [id |-> data[d].events[i].id,
             details |-> data[d].events[i].details,
             locked |-> data[d].events[i].locked,
             roles |-> [r \in RoleIds |->
                           GetOr(data[d].events[i].roles, r, <<>>)]]]]

\* C11 as stated: handleRemoveVolunteer with a volunteer id absent from the
\* target roster leaves daysData, the role-to-volunteers mapping included, as
\* it was, also when the event has no roster for that role.
C11_AbsentRemoveLeavesDaysData ==
    \A eventId \in 0..MaxIds, roleId \in RoleIds, volunteerId \in 0..MaxIds :
        AbsentFrom(TargetRoster(eventId, roleId), volunteerId)
        => RemoveVolunteerData(daysData, selectedEventDate, eventId, roleId,
                               volunteerId) = daysData

\* C11, amended: handleRemoveVolunteer with a volunteer id absent from the
\* target roster leaves every event's id, details, locked flag and every
\* roster read as "roles[roleId] || []" as they were; daysData itself is
\* unchanged when there is no such event or the event has a roster for the
\* role, and otherwise gains exactly an empty roster for that role.
C11_AbsentRemoveKeepsRosters ==
    \A eventId \in 0..MaxIds, roleId \in RoleIds, volunteerId \in 0..MaxIds :
        LET next == RemoveVolunteerData(daysData, selectedEventDate, eventId,
                                        roleId, volunteerId)
        IN  AbsentFrom(TargetRoster(eventId, roleId), volunteerId)
            => /\ RostersRead(next) = RostersRead(daysData)
               /\ (HasTargetRoster(eventId, roleId)
                   \/ eventId \notin EventIdsOf(daysData))
                      => next = daysData
               /\ (~HasTargetRoster(eventId, roleId)
                   /\ eventId \in EventIdsOf(daysData)
                   /\ Has(daysData, selectedEventDate))
                      => /\ next # daysData
                         /\ EventById(next, eventId).roles =
                                Put(EventById(daysData, eventId).roles,
                                    roleId, <<>>)

\* The open event has a roster of one entry for one role and no roster for
\* another role.
C11_Witness ==
    /\ DetailOpen
    /\ Len(TargetRoster(event.id, FormRole)) = 1
    /\ HasTargetRoster(event.id, FormRole)
    /\ ~HasTargetRoster(event.id, "role-1")

\* The number of entries stored for (ev, roleId), 0 without a roster.
Stored(ev, roleId) == IF Has(ev.roles, roleId) THEN Len(ev.roles[roleId]) ELSE 0

\* 1 when the step is a successful submission of the form of roleId for the
\* open event ev, else 0.
AddedTo(ev, roleId) ==
    IF /\ DetailFree
       /\ event.id = ev.id
       /\ SubmitVolunteerWithin(roleId, MaxRosterIds)
       /\ nextId' = nextId + 1
    THEN 1 ELSE 0

\* 1 when the step is a click on the X of an entry of (ev, roleId), else 0.
RemovedFrom(ev, roleId) ==
    IF /\ DetailFree
       /\ event.id = ev.id
       /\ \E v \in RosterIds : RemoveVolunteerClick(roleId, v)
    THEN 1 ELSE 0

\* C12: for every stored event and role, getCoverageStatus returns the number
\* of stored entries (0 without a roster), the role's minVolunteers, and
\* isMet = (current >= minimum); every step changes current by +1 for a
\* successful add to that roster, by -1 for a removal of one of its entries
\* and by 0 otherwise, and a new event starts with current = 0.
C12_CoverageCounts ==
    /\ [](\A e \in EventsOf(daysData) : \A i \in 1..Len(roles) :
            LET c == getCoverageStatus(e, roles[i])
            IN  /\ c.current = Stored(e, roles[i].id)
                /\ c.minimum = roles[i].minVolunteers
                /\ c.isMet = (Stored(e, roles[i].id) >= roles[i].minVolunteers))
    /\ [][\A i \in 1..Len(roles) :
            /\ \A e \in EventsOf(daysData) :
                   e.id \in EventIdsOf(daysData')
                   => getCoverageStatus(EventById(daysData', e.id),
                                        roles[i]).current
                      = getCoverageStatus(e, roles[i]).current
                        + AddedTo(e, roles[i].id) - RemovedFrom(e, roles[i].id)
            /\ \A e \in EventsOf(daysData') :
                   e.id \notin EventIdsOf(daysData)
                   => getCoverageStatus(e, roles[i]).current = 0]_vars

\* After four ids (one event, three entries of which one was removed) the
\* event meets the minimum of role-1 with one entry and misses that of
\* role-4 with one entry.
C12_Witness ==
    /\ nextId = MaxRosterIds
    /\ \E e \in EventsOf(daysData) :
           /\ getCoverageStatus(e, roles[1]) =
                  [current |-> 1, minimum |-> 1, isMet |-> TRUE]
           /\ getCoverageStatus(e, roles[4]) =
                  [current |-> 1, minimum |-> 8, isMet |-> FALSE]

\* The step is a submission of the form of roleId or a click on the X of
\* one of the entries of roleId, for the open event.
RosterStep(roleId) ==
    /\ DetailFree
    /\ \/ SubmitVolunteerWithin(roleId, MaxRosterIds)
       \/ \E v \in RosterIds : RemoveVolunteerClick(roleId, v)

WithinBounds(w) == bounds.minDate <= w /\ w <= bounds.maxDate

\* C13: in every state reached by previous-week, next-week and Today clicks
\* the displayed weekStart lies within the bounds, and a previous-week or
\* next-week click whose target week lies outside the bounds cannot change
\* weekStart; no click sets an error.
C13_WeekStartWithinBounds ==
    /\ WithinBounds(weekStart)
    /\ newError = ""
    /\ ~WithinBounds(subWeeks(weekStart, 1))
       => ~ENABLED (handlePrevWeek /\ weekStart' # weekStart)
    /\ ~WithinBounds(addWeeks(weekStart, 1))
       => ~ENABLED (handleNextWeek /\ weekStart' # weekStart)

\* The part of C13 that the previous-week and next-week clicks keep: from a
\* week within the bounds they lead to a week within the bounds, and a click
\* whose target lies outside leaves weekStart as it is.
C13_PrevNextStayWithin ==
    [][(handlePrevWeek \/ handleNextWeek)
       => /\ WithinBounds(weekStart) => WithinBounds(weekStart')
          /\ (handlePrevWeek /\ ~WithinBounds(subWeeks(weekStart, 1)))
             => weekStart' = weekStart
          /\ (handleNextWeek /\ ~WithinBounds(addWeeks(weekStart, 1)))
             => weekStart' = weekStart]_vars

\* C14: canNavigateToWeek(w, bounds) is true exactly for the days w with
\* minDate <= w <= maxDate: true at minDate and at maxDate, false one day and
\* one week before minDate and one day and one week after maxDate.
C14_ClosedInterval ==
    /\ \A w \in (bounds.minDate - 2 * DaysPerWeek)
                ..(bounds.maxDate + 2 * DaysPerWeek) :
           canNavigateToWeek(w, bounds) <=> WithinBounds(w)
    /\ canNavigateToWeek(bounds.minDate, bounds)
    /\ canNavigateToWeek(bounds.maxDate, bounds)
    /\ ~canNavigateToWeek(bounds.minDate - 1, bounds)
    /\ ~canNavigateToWeek(subWeeks(bounds.minDate, 1), bounds)
    /\ ~canNavigateToWeek(bounds.maxDate + 1, bounds)
    /\ ~canNavigateToWeek(addWeeks(bounds.maxDate, 1), bounds)

\* The page was mounted on a Monday and shows the week that starts on
\* maxDate: the previous week is offered, the next one is not.
C14_Witness ==
    /\ weekStart = bounds.maxDate
    /\ canGoPrev
    /\ ~canGoNext

\* The first 10 digit characters of s, in order.
FirstTenDigits(s) ==
    LET d == StripNonDigits(s) IN SubSeq(d, 1, Min(Len(d), 10))

\* d followed by as many copies of the digit c as it takes to make 10.
CompleteWith(d, c) == [i \in 1..10 |-> IF i <= Len(d) THEN d[i] ELSE c]

\* "(DDD) DDD-DDDD" for the 10 digits t.
FullMask(t) ==
    << "(", t[1], t[2], t[3], ")", " ", t[4], t[5], t[6], "-",
       t[7], t[8], t[9], t[10] >>

IsPrefix(s, t) == Len(s) <= Len(t) /\ s = SubSeq(t, 1, Len(s))

\* C15: the digits of maskPhoneInput(s) are the first 10 digits of s, its
\* value is a prefix of the full mask of those digits completed to 10 with
\* any digit, and it is empty when s has no digit.
C15_MaskIsPrefix ==
    Has(ret, "maskPhoneInput")
    => LET out == ret["maskPhoneInput"]
           d == FirstTenDigits(arg)
       IN  /\ StripNonDigits(out) = d
           /\ \A c \in Digits : IsPrefix(out, FullMask(CompleteWith(d, c)))
           /\ d = <<>> => out = <<>>

\* Eleven digits and one other character were typed: the mask is complete
\* and leaves the eleventh digit out.
C15_Witness ==
    /\ Has(ret, "maskPhoneInput")
    /\ Len(arg) = MaxLen
    /\ Len(StripNonDigits(arg)) = 11
    /\ Len(ret["maskPhoneInput"]) = 14

\* C16: for s with at least 10 digits, cleanPhone(maskPhoneInput(s)) is the
\* sequence of the first 10 digits of s.
C16_CleanOfMask ==
    (Has(ret, "cleanPhone") /\ Len(StripNonDigits(arg)) >= 10)
    => ret["cleanPhone"] = SubSeq(StripNonDigits(arg), 1, 10)

\* Ten digits between two other characters, masked and cleaned.
C16_Witness ==
    /\ Has(ret, "cleanPhone")
    /\ Len(arg) = MaxLen
    /\ ~IsDigit(arg[1])
    /\ ~IsDigit(arg[MaxLen])
    /\ Len(ret["cleanPhone"]) = 10

\* s consists of exactly 10 characters, all of them digits.
TenDigitString(s) == Len(s) = 10 /\ StripNonDigits(s) = s

\* C17 as stated: formatPhone(s) is the full mask of s when s is a string of
\* exactly 10 digits, and s itself for every other s.
C17_FormatsOnlyTenDigitStrings ==
    Has(ret, "formatPhone")
    => IF TenDigitString(arg)
       THEN ret["formatPhone"] = FullMask(arg)
       ELSE ret["formatPhone"] = arg

\* C17: formatPhone(s) is the full mask of the digits of s when s contains
\* exactly 10 digit characters, whatever else it contains, and s itself when
\* the number of its digit characters is not 10.
C17_FormatsTenDigits ==
    Has(ret, "formatPhone")
    => IF Len(StripNonDigits(arg)) = 10
       THEN ret["formatPhone"] = FullMask(StripNonDigits(arg))
       ELSE ret["formatPhone"] = arg

\* Ten digits with two other characters among them were reformatted.
C17_Witness ==
    /\ Has(ret, "formatPhone")
    /\ Len(arg) = MaxLen
    /\ Len(StripNonDigits(arg)) = 10
    /\ ret["formatPhone"] # arg
    /\ ret["formatPhone"] = FullMask(StripNonDigits(arg))

\* C18: isDuplicateVolunteer(existing, name, phone) is true exactly when some
\* entry of existing has the same trimmed, lower-cased name as the candidate
\* and a cleaned phone equal to the cleaned candidate phone.
C18_DuplicateIff ==
    Has(ret, "isDuplicateVolunteer")
    => (ret["isDuplicateVolunteer"]
        <=> \E i \in 1..Len(arg.volunteers) :
                /\ toLowerCase(trim(arg.volunteers[i].name))
                   = toLowerCase(trim(arg.name))
                /\ cleanPhone(arg.volunteers[i].phone) = cleanPhone(arg.phone))

\* The stored entry {Jane Doe, 5551234567} makes the candidate
\* "jane doe", "(555) 123-4567" a duplicate.
C18_Witness ==
    /\ Has(ret, "isDuplicateVolunteer")
    /\ ret["isDuplicateVolunteer"]
    /\ Len(arg.volunteers) = 1
    /\ arg.volunteers[1].name = JaneDoe
    /\ arg.volunteers[1].phone
       = <<"5", "5", "5", "1", "2", "3", "4", "5", "6", "7">>
    /\ arg.name = <<"j", "a", "n", "e", " ", "d", "o", "e">>
    /\ arg.phone
       = <<"(", "5", "5", "5", ")", " ", "1", "2", "3", "-", "4", "5", "6", "7">>

\* The step closes a dialog without submitting: Cancel, Escape or a click
\* outside, in any of the five dialogs.
ClosesDialog ==
    \/ AddEventCancel
    \/ CloseDetail
    \/ CloseAddRoleDialog
    \/ CancelUnlock
    \/ CancelDelete

\* C20: a step that closes the Add Event modal, the Event Detail modal, the
\* Add Role dialog or a confirmation dialog without submitting leaves
\* daysData, roles and weekStart as they were; it empties the text and error
\* of the Add Event modal, the add-volunteer forms of the Event Detail modal
\* and the name and error of the Add Role dialog, and the Event Detail modal
\* opens again with the stored details and no form.
C20_CloseDiscards ==
    [][/\ ClosesDialog
          => /\ daysData' = daysData
             /\ roles' = roles
             /\ weekStart' = weekStart
             /\ nextId' = nextId
       /\ AddEventCancel
          => newDetails' = <<>> /\ newError' = "" /\ ~AddEventOpen'
       /\ CloseDetail
          => addForms' = EmptyMap /\ ~DetailOpen'
       /\ CloseAddRoleDialog
          => roleName' = <<>> /\ roleError' = "" /\ ~showAddRoleDialog'
       /\ (CancelUnlock \/ CancelDelete)
          => ~ConfirmOpen' /\ selectedEvent' = selectedEvent
       /\ (\E date \in DateInputs, i \in Ids : handleEventClick(date, i))
          => /\ editedDetails' = selectedEvent'[1].details
             /\ addForms' = EmptyMap]_vars

\* One role was added and one event saved, another week is displayed, and
\* the Add Role dialog is open with a name typed in: closing it empties the
\* name and keeps roles and daysData.
C20_Witness ==
    /\ showAddRoleDialog
    /\ roleName = <<"x">>
    /\ Len(roles) = Len(getDefaultRoles) + 1
    /\ EventsOf(daysData) # {}
    /\ weekStart # getWeekStart(now)
    /\ ENABLED (/\ CloseAddRoleDialog
                /\ roleName' = <<>>
                /\ addedRoles' = addedRoles
                /\ daysData' = daysData)

\* C21: the role list starts as the 4 default roles with minimums 1, 1, 1
\* and 8, and every step either keeps the list or appends one role to it,
\* the latter only by the add-role submission: every role once in the list
\* stays at its place with its id, label and minVolunteers.
C21_RolesOnlyAppended ==
    /\ roles = getDefaultRoles
    /\ Len(roles) = 4
    /\ [i \in 1..4 |-> roles[i].minVolunteers] = <<1, 1, 1, 8>>
    /\ [][\/ roles' = roles
          \/ /\ AddRoleSave
             /\ Len(roles') = Len(roles) + 1
             /\ SubSeq(roles', 1, Len(roles)) = roles]_vars

\* Two roles were added after the four default ones.
C21_Witness ==
    /\ Len(roles) = 6
    /\ SubSeq(roles, 1, 4) = getDefaultRoles
    /\ roles[5].id # roles[6].id
    /\ ~roles[5].isDefault

\* C22 as a property of every state: whenever the grid takes clicks, one of
\* the actions the page offers opens the Add Role dialog.
C22_AddRoleOffered ==
    GridFree => ENABLED (Next /\ showAddRoleDialog')

\* What holds of the page as wired: the Add Role dialog is never open and
\* the role list is the four default roles.
C22_AddRoleDialogNeverOpens ==
    ~showAddRoleDialog /\ roles = getDefaultRoles

\* C23: whenever the grid takes clicks, a click on the Export PDF button
\* hands exportCalendarToPDF the snapshot {weekStart, weekDays, daysData,
\* roles} of the displayed week.
C23_ExportClickInvokes ==
    GridFree => ENABLED (ExportPDFClick /\ arg' = Snapshot)

\* What holds of the page as wired: nothing is ever handed to
\* exportCalendarToPDF and nothing comes back.
C23_ExportNeverInvoked == arg = <<>> /\ ret = <<>>

\* C24: an export, whether it succeeds or fails, leaves daysData, roles and
\* weekStart as they were; a failed export saves no document and shows the
\* alert, a successful one shows none.
C24_ExportKeepsState ==
    [][\A fails \in BOOLEAN :
          ExportPDF(fails)
          => /\ daysData' = daysData
             /\ roles' = roles
             /\ weekStart' = weekStart
             /\ fails => (ret'.alert # "" /\ ret'.document = <<>>)
             /\ ~fails => (ret'.alert = "" /\ ret'.document # <<>>)]_vars

\* An export of a week with a stored event failed: the alert shows and the
\* event is still stored.
C24_Witness ==
    /\ ret # <<>>
    /\ ret.alert = "Failed to export PDF. Please try again."
    /\ EventsOf(daysData) # {}
    /\ arg.daysData = daysData
    /\ arg.weekStart = weekStart

\* The events the grid shows for a day of the snapshot, as the document
\* writes events.
ShownFor(data, day) ==
    LET date == toISODate(day)
        events == IF Has(data.daysData, date)
                  THEN data.daysData[date].events ELSE <<>>
    IN  [k \in 1..Len(events) |-> eventHTML(events[k], data.roles)]

\* C30: in a saved document, the section of each of the 7 days of the week
\* lists exactly the events the grid shows for that day, those stored under
\* toISODate of the day, whatever the time zone of the browser.
C30_ExportListsShownEvents ==
    (ret # <<>> /\ ret.alert = "")
    => \A i \in 1..DaysPerWeek :
           ret.document[i].events = ShownFor(arg, arg.weekDays[i])

\* The part of C30 that holds: in a browser on UTC or west of it the export
\* looks every day up under the key of the grid.
C30_ExportListsShownEventsWest ==
    (ret # <<>> /\ ret.alert = "" /\ tz <= 0)
    => \A i \in 1..DaysPerWeek :
           /\ toISOStringDate(arg.weekDays[i]) = toISODate(arg.weekDays[i])
           /\ ret.document[i].events = ShownFor(arg, arg.weekDays[i])

\* ------------------------------------------------------------------- C25
\* The stored event the Event Detail modal's selection stands for.
StoredSelected ==
    IF ~Has(daysData, selectedEventDate) THEN <<>>
    ELSE FindById(daysData[selectedEventDate].events, event.id)

\* C25: after every step, whenever the Event Detail modal has a selected
\* event, that snapshot equals the event with the same id stored in
\* daysData[selectedEventDate] (details, locked and rosters); this covers
\* Lock & Save, which updates the details and toggles the lock in one
\* handler. After a confirmed delete the selection is empty.
C25_SelectionMatchesStore ==
    [][ /\ (selectedEvent' # <<>>) => StoredSelected' = selectedEvent'
        /\ (ConfirmDelete /\ selectedEvent # <<>>) => selectedEvent' = <<>>
      ]_vars

\* A locked selected event with a stored volunteer and stored details that
\* equal the snapshot, while a second event exists on the same day.
C25_Witness ==
    /\ DetailOpen
    /\ event.locked
    /\ \E roleId \in DOMAIN event.roles : event.roles[roleId] # <<>>
    /\ StoredSelected = selectedEvent
    /\ Len(daysData[selectedEventDate].events) > 1

\* ------------------------------------------------------------------- C26
\* The weeks from WeeksBack weeks before the week of the mount to WeeksAhead
\* weeks after it; the week of the mount starts WeeksBack weeks after minDate.
MountWeeks ==
    {addWeeks(bounds.minDate, k) : k \in 0..(WeeksBack + WeeksAhead)}

FirstWeek == bounds.minDate

LastWeek == addWeeks(bounds.minDate, WeeksBack + WeeksAhead)

\* C26: the displayed week is always one of the 15 weeks from 2 weeks
\* before the week of the mount to 12 weeks after it, whatever previous-week,
\* next-week and Today clicks were made, and each of them can be reached:
\* previous-week moves back from every week but the first of the 15 and
\* next-week moves on from every week but the last, so that from the initial
\* week previous-week succeeds 2 times in a row and next-week 12 times.
C26_FifteenWeeks ==
    /\ weekStart \in MountWeeks
    /\ ENABLED (handlePrevWeek /\ weekStart' # weekStart)
       <=> weekStart > FirstWeek
    /\ ENABLED (handleNextWeek /\ weekStart' # weekStart)
       <=> weekStart < LastWeek

\* What the previous-week and next-week clicks keep: inside the 15 weeks
\* they move exactly between neighbours and stop at the first and the last.
C26_PrevNextFifteenWeeks ==
    weekStart \in MountWeeks
    => /\ ENABLED (handlePrevWeek /\ weekStart' # weekStart)
          <=> weekStart > FirstWeek
       /\ ENABLED (handleNextWeek /\ weekStart' # weekStart)
          <=> weekStart < LastWeek

\* ------------------------------------------------------------------- C27
\* C27: from every value of the phone field that is not empty, removing the
\* last character and applying maskPhoneInput again gives a strictly shorter
\* value, so that repeated deletion from the end empties the field.
C27_BackspaceShortens ==
    (ret # <<>> /\ FieldValue # <<>>)
    => Len(maskPhoneInput(DeleteLast(FieldValue))) < Len(FieldValue)

\* What deletion from the end does: the value never grows, and it becomes
\* shorter exactly when the field does not hold 3 or 6 digits, whose mask ends
\* with the separator that the mask puts back.
C27_BackspaceStuckAtSeparators ==
    (ret # <<>> /\ FieldValue # <<>>)
    => LET after == maskPhoneInput(DeleteLast(FieldValue))
           n == Len(StripNonDigits(FieldValue))
       IN  IF n \in {3, 6}
           THEN after = FieldValue
           ELSE /\ Len(after) < Len(FieldValue)
                /\ Len(StripNonDigits(after)) = n - 1

\* ------------------------------------------------------------------- C28
\* A volunteer is submitted or a volunteer chip is removed in the Event
\* Detail modal.
RosterClick ==
    \/ \E roleId \in RoleInputs : SubmitVolunteer(roleId)
    \/ \E roleId \in RoleIds, volunteerId \in Ids :
           RemoveVolunteerClick(roleId, volunteerId)

\* C28: while the selected event is unlocked, adding or removing a
\* volunteer leaves the details draft (editedDetails) as the user typed it.
C28_RosterEditsKeepDraft ==
    [][(RosterClick /\ ~event.locked) => editedDetails' = editedDetails]_vars

\* What the roster edits do to the draft: a step that changes the stored
\* rosters sets the draft back to the stored details of the event, and a
\* rejected submission keeps it.
C28_RosterEditsResetDraft ==
    [][RosterClick
       => IF daysData' # daysData
          THEN /\ editedDetails' = event.details
               /\ selectedEvent'[1].details = event.details
          ELSE editedDetails' = editedDetails]_vars

\* ------------------------------------------------------------------- C29
\* C29: in every state of the wired page every stored event has details
\* that are not empty and equal to their own trim; while the Add Event modal
\* holds empty or whitespace-only details, Add Event stores nothing and shows
\* the error "Event details are required"; and Lock & Save with an empty or
\* whitespace-only draft writes nothing.
C29_StoredDetailsTrimmed ==
    /\ \A e \in EventsOf(daysData) :
           e.details # <<>> /\ trim(e.details) = e.details
    /\ (AddEventOpen /\ trim(newDetails) = <<>>)
       => /\ ENABLED (AddEventSave /\ daysData' = daysData
                                   /\ newError' = "Event details are required")
          /\ ~ENABLED (AddEventSave /\ daysData' # daysData)
    /\ (DetailFree /\ ~event.locked /\ trim(editedDetails) = <<>>)
       => ~ENABLED (handleToggleLockClick /\ daysData' # daysData)

\* An event whose details were typed as " y " in the Event Detail modal and
\* stored by Lock & Save as "y", while the Add Event modal shows the error of
\* a rejected whitespace-only creation.
C29_Witness ==
    /\ \E e \in EventsOf(daysData) : e.details = <<"y">> /\ e.locked
    /\ AddEventOpen
    /\ trim(newDetails) = <<>>
    /\ newError = "Event details are required"


====
